---- MODULE Spec2Model ----
(***************************************************************************)
(* Model of stdnum.do.cedula (src/do/cedula.py): the Dominican Republic    *)
(* national identification number.  The module is a set of pure functions  *)
(* over short strings plus one immutable set, the whitelist.               *)
(*                                                                         *)
(* A Python string is modelled as a sequence of characters, a character as *)
(* a one-character TLA+ string.  Two characters outside printable ASCII    *)
(* are written by name: "\t" is the tab and "U+00B2" stands for the single *)
(* character SUPERSCRIPT TWO, for which str.isdigit() is true although it  *)
(* is not one of 0-9.                                                      *)
(*                                                                         *)
(* The outcome of a call is a record [kind, value]: kind "ok" with the     *)
(* returned value, or the name of the exception raised.                    *)
(***************************************************************************)
EXTENDS Integers, Sequences, FiniteSets

VARIABLES number, op, result

vars == <<number, op, result>>

\* ------------------------------------------------------------------------
\* Characters and Python string primitives
\* ------------------------------------------------------------------------

\* The digits 0-9, in the order of luhn's default alphabet '0123456789'.
alphabet == <<"0", "1", "2", "3", "4", "5", "6", "7", "8", "9">>

AsciiDigits == {alphabet[i] : i \in 1..Len(alphabet)}

\* Characters c with c.isdigit() true: the decimal digits and the other
\* Unicode digits (Numeric_Type=Digit), here SUPERSCRIPT TWO.
DigitChars == AsciiDigits \cup {"U+00B2"}

\* Characters str.strip() removes from both ends.
Whitespace == {" ", "\t"}

\* str.isdigit(): every character is a digit and there is at least one.
isdigit(s) == Len(s) > 0 /\ \A i \in 1..Len(s) : s[i] \in DigitChars

\* bool(v) of a string: the empty string is falsy.
bool(s) == Len(s) > 0

RECURSIVE lstrip(_)
lstrip(s) ==
    IF s # <<>> /\ Head(s) \in Whitespace THEN lstrip(Tail(s)) ELSE s

RECURSIVE rstrip(_)
rstrip(s) ==
    IF s # <<>> /\ s[Len(s)] \in Whitespace
    THEN rstrip(SubSeq(s, 1, Len(s) - 1))
    ELSE s

\* str.strip()
strip(s) == rstrip(lstrip(s))

\* Python's slice s[start:stop] for integer start and stop: a negative
\* index counts from the end, and both are clipped to the string.
SliceIndex(s, i) ==
    IF i < 0
    THEN (IF i + Len(s) < 0 THEN 0 ELSE i + Len(s))
    ELSE (IF i > Len(s) THEN Len(s) ELSE i)

PySlice(s, start, stop) ==
    SubSeq(s, SliceIndex(s, start) + 1, SliceIndex(s, stop))

\* sep.join(parts)
RECURSIVE join(_, _)
join(sep, parts) ==
    IF parts = <<>> THEN <<>>
    ELSE IF Len(parts) = 1 THEN parts[1]
    ELSE parts[1] \o sep \o join(sep, Tail(parts))

\* Outcomes of a call.
Ok(v) == [kind |-> "ok", value |-> v]

Raise(e) == [kind |-> e, value |-> <<>>]

\* The subclasses of stdnum.exceptions.ValidationError.
ValidationError == {"InvalidFormat", "InvalidLength", "InvalidChecksum", "InvalidComponent"}

\* ------------------------------------------------------------------------
\* Collaborators: stdnum.util.clean and stdnum.luhn
\* ------------------------------------------------------------------------

\* clean(number, deletechars): the characters of number that are not in
\* deletechars, in their order.
RECURSIVE clean(_, _)
clean(s, deletechars) ==
    IF s = <<>> THEN <<>>
    ELSE IF Head(s) \in deletechars THEN clean(Tail(s), deletechars)
    ELSE <<Head(s)>> \o clean(Tail(s), deletechars)

\* alphabet.index(c), 0-based; only defined for c in the alphabet.
index(c) == (CHOOSE i \in 1..Len(alphabet) : alphabet[i] = c) - 1

\* The Luhn sum of the digits taken from the right: every second digit,
\* starting with the one before the last, is doubled and its two decimal
\* digits are added (sum(divmod(2 * d, 10))).
RECURSIVE luhn_sum(_, _)
luhn_sum(s, double) ==
    IF s = <<>> THEN 0
    ELSE LET d == index(s[Len(s)])
             v == IF double THEN ((2 * d) \div 10) + ((2 * d) % 10) ELSE d
         IN  v + luhn_sum(SubSeq(s, 1, Len(s) - 1), ~double)

luhn_checksum(s) == luhn_sum(s, FALSE) % Len(alphabet)

\* luhn.validate(number): the number itself when its checksum is 0.
luhn_validate(s) ==
    IF ~bool(s) THEN Raise("InvalidFormat")
    ELSE IF \E i \in 1..Len(s) : s[i] \notin AsciiDigits THEN Raise("InvalidFormat")
    ELSE IF luhn_checksum(s) # 0 THEN Raise("InvalidChecksum")
    ELSE Ok(s)

\* ------------------------------------------------------------------------
\* The whitelist: cedulas that do not match the checksum but are valid
\* ------------------------------------------------------------------------

\* The words of the whitelist literal, in the order of the source.
whitelist_words == <<
    <<"0","0","0","0","0","0","2","1","2","4","9">>, <<"0","0","0","0","0","0","3","1","4","1","7">>,
    <<"0","0","0","0","0","0","3","5","6","9","2">>, <<"0","0","0","0","0","0","4","5","3","4","2">>,
    <<"0","0","0","0","0","0","5","8","0","3","5">>, <<"0","0","0","0","0","0","6","5","3","7","7">>,
    <<"0","0","0","0","0","0","7","8","5","8","7">>, <<"0","0","0","0","0","1","1","1","9","4","1">>,
    <<"0","0","0","0","0","1","2","6","2","9","5">>, <<"0","0","0","0","0","1","2","9","9","6","3">>,
    <<"0","0","0","0","0","1","4","0","8","7","4">>, <<"0","0","0","0","0","1","4","4","4","9","1">>,
    <<"0","0","0","0","0","1","5","5","4","8","2">>, <<"0","0","0","0","0","1","9","5","5","7","6">>,
    <<"0","0","0","0","0","2","3","6","6","2","1">>, <<"0","0","0","0","0","2","9","2","2","1","2">>,
    <<"0","0","0","0","0","3","0","2","3","4","7">>, <<"0","0","0","0","0","4","0","4","6","5","5">>,
    <<"0","0","0","0","0","5","4","7","4","9","5">>, <<"0","0","0","0","0","5","6","4","9","3","3">>,
    <<"0","0","0","0","0","6","6","9","7","7","3">>, <<"0","0","0","0","0","7","1","9","4","0","0">>,
    <<"0","0","0","0","1","9","6","5","8","0","4">>, <<"0","0","0","0","4","1","1","0","0","5","6">>,
    <<"0","0","0","0","6","7","4","7","5","8","7">>, <<"0","0","0","1","0","1","3","0","0","8","5">>,
    <<"0","0","0","1","0","6","2","8","5","5","9">>, <<"0","0","0","7","7","5","8","4","0","0","0">>,
    <<"0","0","1","0","0","0","0","0","1","6","9">>, <<"0","0","1","0","0","0","1","2","1","4","6">>,
    <<"0","0","1","0","0","0","1","3","1","1","4">>, <<"0","0","1","0","0","0","1","6","4","9","5">>,
    <<"0","0","1","0","0","0","5","3","8","4","1">>, <<"0","0","1","0","0","0","6","1","6","1","1">>,
    <<"0","0","1","0","0","0","6","1","9","4","5">>, <<"0","0","1","0","0","0","7","4","6","2","7">>,
    <<"0","0","1","0","0","0","8","3","8","6","0">>, <<"0","0","1","0","0","1","0","1","7","6","7">>,
    <<"0","0","1","0","0","1","2","6","4","6","8">>, <<"0","0","1","0","0","1","4","5","7","3","7">>,
    <<"0","0","1","0","0","1","6","5","5","0","4">>, <<"0","0","1","0","0","1","6","9","7","0","6">>,
    <<"0","0","1","0","0","1","7","2","9","4","0">>, <<"0","0","1","0","0","1","7","4","6","6","6">>,
    <<"0","0","1","0","0","1","8","1","0","5","7">>, <<"0","0","1","0","0","2","2","8","7","1","8">>,
    <<"0","0","1","0","0","2","3","1","0","1","7">>, <<"0","0","1","0","0","2","3","8","3","8","2">>,
    <<"0","0","1","0","0","2","3","9","6","6","2">>, <<"0","0","1","0","0","2","5","5","3","4","9">>,
    <<"0","0","1","0","0","2","8","8","1","4","3">>, <<"0","0","1","0","0","2","8","8","9","2","9">>,
    <<"0","0","1","0","0","3","2","2","6","4","9">>, <<"0","0","1","0","0","3","3","6","0","2","7">>,
    <<"0","0","1","0","0","3","5","0","9","2","8">>, <<"0","0","1","0","0","3","7","8","4","4","0">>,
    <<"0","0","1","0","0","3","8","4","2","6","8">>, <<"0","0","1","0","0","3","8","4","5","2","3">>,
    <<"0","0","1","0","0","4","1","5","8","5","3">>, <<"0","0","1","0","0","4","3","0","9","8","9">>,
    <<"0","0","1","0","0","5","2","3","3","9","9">>, <<"0","0","1","0","0","5","2","4","5","3","1">>,
    <<"0","0","1","0","0","5","3","0","5","8","8">>, <<"0","0","1","0","0","5","3","1","0","0","7">>,
    <<"0","0","1","0","0","5","8","7","3","2","0">>, <<"0","0","1","0","0","5","9","0","6","8","3">>,
    <<"0","0","1","0","0","5","9","3","3","7","8">>, <<"0","0","1","0","0","6","2","2","4","6","1">>,
    <<"0","0","1","0","0","6","6","4","0","8","6">>, <<"0","0","1","0","0","7","0","9","2","1","5">>,
    <<"0","0","1","0","0","7","2","8","1","1","3">>, <<"0","0","1","0","0","7","2","9","7","9","5">>,
    <<"0","0","1","0","0","7","5","6","0","8","2">>, <<"0","0","1","0","0","7","5","9","9","3","2">>,
    <<"0","0","1","0","1","1","1","8","0","2","2">>, <<"0","0","1","0","1","1","6","6","0","6","5">>,
    <<"0","0","1","0","1","2","3","4","0","9","0">>, <<"0","0","1","0","1","5","2","7","3","6","6">>,
    <<"0","0","1","0","1","5","4","1","4","0","4">>, <<"0","0","1","0","1","6","2","1","9","8","1">>,
    <<"0","0","1","0","1","6","5","9","6","6","1">>, <<"0","0","1","0","1","6","8","4","6","5","6">>,
    <<"0","0","1","0","1","6","8","6","2","9","9">>, <<"0","0","1","0","1","8","2","1","7","3","5">>,
    <<"0","0","1","0","1","9","6","1","1","2","5">>, <<"0","0","1","0","2","0","2","5","2","0","1">>,
    <<"0","0","1","0","2","3","9","8","2","3","9">>, <<"0","0","1","0","2","5","7","7","4","4","8">>,
    <<"0","0","1","0","2","6","3","0","1","9","2">>, <<"0","0","1","0","3","2","6","6","5","5","8">>,
    <<"0","0","1","0","3","4","3","6","9","3","6">>, <<"0","0","1","0","3","4","4","3","8","0","2">>,
    <<"0","0","1","0","3","7","5","4","3","6","5">>, <<"0","0","1","0","3","7","6","6","2","3","1">>,
    <<"0","0","1","0","3","8","2","2","4","4","0">>, <<"0","0","1","0","3","9","8","3","0","0","4">>,
    <<"0","0","1","0","4","4","8","6","9","0","3">>, <<"0","0","1","0","4","5","3","2","0","8","6">>,
    <<"0","0","1","0","4","6","6","2","5","6","1">>, <<"0","0","1","0","4","7","2","7","3","6","2">>,
    <<"0","0","1","0","4","7","8","5","1","0","4">>, <<"0","0","1","0","4","8","6","2","5","2","5">>,
    <<"0","0","1","0","4","9","6","6","3","1","3">>, <<"0","0","1","0","5","2","6","3","3","1","4">>,
    <<"0","0","1","0","5","3","2","8","1","8","5">>, <<"0","0","1","0","5","5","1","2","3","8","6">>,
    <<"0","0","1","0","5","5","3","0","8","9","4">>, <<"0","0","1","0","5","6","0","6","5","4","3">>,
    <<"0","0","1","0","5","8","3","2","4","0","8">>, <<"0","0","1","0","6","1","9","0","9","6","6">>,
    <<"0","0","1","0","6","2","8","4","9","3","3">>, <<"0","0","1","0","6","4","1","8","9","8","9">>,
    <<"0","0","1","0","6","4","4","2","5","2","2">>, <<"0","0","1","0","6","4","7","9","9","2","2">>,
    <<"0","0","1","0","6","9","1","6","5","3","8">>, <<"0","0","1","0","7","0","4","5","4","9","9">>,
    <<"0","0","1","0","7","0","7","5","0","9","0">>, <<"0","0","1","0","7","1","8","4","3","0","5">>,
    <<"0","0","1","0","7","4","4","5","4","9","3">>, <<"0","0","1","0","7","6","0","2","0","6","7">>,
    <<"0","0","1","0","7","6","6","5","6","8","8">>, <<"0","0","1","0","7","6","8","7","3","8","3">>,
    <<"0","0","1","0","7","6","9","1","9","4","2">>, <<"0","0","1","0","8","1","1","3","3","6","3">>,
    <<"0","0","1","0","8","1","3","2","4","4","8">>, <<"0","0","1","0","8","1","8","4","0","2","4">>,
    <<"0","0","1","0","8","2","6","4","8","7","1">>, <<"0","0","1","0","8","2","8","6","7","9","2">>,
    <<"0","0","1","0","8","3","8","4","1","2","1">>, <<"0","0","1","0","8","4","1","3","4","3","1">>,
    <<"0","0","1","0","8","4","9","7","8","2","2">>, <<"0","0","1","0","8","7","8","4","6","8","4">>,
    <<"0","0","1","0","8","7","9","6","8","8","3">>, <<"0","0","1","0","8","9","4","0","2","2","5">>,
    <<"0","0","1","0","9","1","8","3","4","6","2">>, <<"0","0","1","0","9","2","2","9","0","9","0">>,
    <<"0","0","1","0","9","4","0","2","7","5","6">>, <<"0","0","1","0","9","7","8","5","9","5","1">>,
    <<"0","0","1","0","9","9","8","7","4","3","5">>, <<"0","0","1","1","0","0","4","7","7","1","5">>,
    <<"0","0","1","1","0","0","7","1","1","1","3">>, <<"0","0","1","1","0","1","1","1","5","3","6">>,
    <<"0","0","1","1","0","4","9","0","8","4","3">>, <<"0","0","1","1","0","5","7","8","4","5","9">>,
    <<"0","0","1","1","0","6","4","6","2","0","3">>, <<"0","0","1","1","1","0","1","4","7","8","2">>,
    <<"0","0","1","1","1","1","5","0","5","5","9">>, <<"0","0","1","1","3","4","5","3","7","0","0">>,
    <<"0","0","1","1","4","2","7","2","3","6","0">>, <<"0","0","1","1","4","5","3","2","3","3","0">>,
    <<"0","0","1","1","4","5","3","2","3","5","5">>, <<"0","0","1","1","4","6","8","7","2","1","6">>,
    <<"0","0","1","1","5","0","3","9","7","9","5">>, <<"0","0","1","1","5","3","4","3","8","4","7">>,
    <<"0","0","1","1","6","2","5","6","0","0","5">>, <<"0","0","1","1","6","4","4","8","2","4","1">>,
    <<"0","0","1","1","6","5","0","8","5","1","1">>, <<"0","0","1","1","7","5","8","2","0","0","1">>,
    <<"0","0","1","1","9","1","6","1","8","5","3">>, <<"0","0","1","2","1","3","4","4","1","6","5">>,
    <<"0","0","1","2","1","5","8","1","7","5","0">>, <<"0","0","1","2","1","5","8","1","8","0","0">>,
    <<"0","0","1","2","9","7","3","7","0","5","6">>, <<"0","0","1","3","0","6","1","0","0","0","1">>,
    <<"0","0","1","3","1","2","5","7","0","0","3">>, <<"0","0","1","3","3","9","8","7","8","4","8">>,
    <<"0","0","1","3","4","5","8","8","0","5","6">>, <<"0","0","1","4","2","8","6","4","0","1","3">>,
    <<"0","0","1","4","3","0","7","2","0","0","1">>, <<"0","0","1","4","4","4","3","5","0","0","1">>,
    <<"0","0","1","4","6","9","6","5","0","0","1">>, <<"0","0","1","4","7","4","8","5","0","0","3">>,
    <<"0","0","1","4","9","6","5","7","5","9","0">>, <<"0","0","1","5","5","1","4","4","9","0","6">>,
    <<"0","0","1","6","0","4","0","5","0","0","1">>, <<"0","0","1","6","1","8","8","4","0","0","1">>,
    <<"0","0","1","6","2","9","0","6","0","0","3">>, <<"0","0","1","6","3","5","4","0","0","0","3">>,
    <<"0","0","1","6","3","5","4","9","0","1","2">>, <<"0","0","1","6","3","7","0","9","0","1","8">>,
    <<"0","0","1","6","6","4","5","7","0","5","6">>, <<"0","0","1","6","6","5","3","3","0","0","3">>,
    <<"0","0","1","6","7","3","1","1","0","0","1">>, <<"0","0","1","7","0","0","0","9","1","6","2">>,
    <<"0","0","1","7","0","1","1","5","5","7","9">>, <<"0","0","1","7","1","4","0","4","7","7","1">>,
    <<"0","0","1","7","4","7","2","9","0","0","3">>, <<"0","0","1","7","4","9","4","0","0","0","1">>,
    <<"0","0","1","8","1","8","8","0","0","0","3">>, <<"0","0","1","8","4","1","2","9","0","0","3">>,
    <<"0","0","1","8","9","2","1","3","0","0","1">>, <<"0","0","1","8","9","4","0","5","0","9","3">>,
    <<"0","0","1","9","0","0","0","2","5","6","7">>, <<"0","0","1","9","6","7","1","4","0","0","3">>,
    <<"0","0","2","0","0","0","2","1","9","9","4">>, <<"0","0","2","0","0","0","2","8","7","1","6">>,
    <<"0","0","2","0","0","0","4","0","5","1","6">>, <<"0","0","2","0","0","0","6","3","6","0","1">>,
    <<"0","0","2","0","0","1","2","3","6","4","0">>, <<"0","0","2","0","0","2","9","1","3","8","1">>,
    <<"0","0","2","0","0","4","0","9","7","7","2">>, <<"0","0","2","0","0","4","3","5","5","4","4">>,
    <<"0","0","2","0","0","9","6","9","2","6","0">>, <<"0","0","2","0","1","0","2","3","0","0","1">>,
    <<"0","0","2","0","2","1","1","0","7","6","0">>, <<"0","0","2","0","2","7","4","4","5","2","2">>,
    <<"0","0","2","0","7","3","2","7","0","5","6">>, <<"0","0","2","0","8","4","3","0","2","0","5">>,
    <<"0","0","2","0","8","8","3","2","0","0","3">>, <<"0","0","2","1","8","5","0","7","0","3","1">>,
    <<"0","0","2","2","2","0","1","7","0","0","1">>, <<"0","0","2","3","5","4","8","2","0","0","1">>,
    <<"0","0","2","3","6","2","4","5","0","1","3">>, <<"0","0","2","4","1","9","9","7","0","1","3">>,
    <<"0","0","2","4","6","1","6","0","0","1","3">>, <<"0","0","2","6","1","0","1","1","0","1","3">>,
    <<"0","0","2","7","0","7","6","4","0","1","3">>, <<"0","0","2","7","4","6","5","2","0","0","1">>,
    <<"0","0","2","7","8","0","0","5","0","2","3">>, <<"0","0","2","8","9","9","3","1","0","0","3">>,
    <<"0","0","2","9","1","4","3","1","0","0","1">>, <<"0","0","2","9","1","5","4","9","0","0","3">>,
    <<"0","0","2","9","7","0","1","8","0","0","1">>, <<"0","0","2","9","8","1","0","9","0","0","1">>,
    <<"0","0","2","9","9","7","2","4","0","0","3">>, <<"0","0","3","0","0","0","0","1","5","3","8">>,
    <<"0","0","3","0","0","0","1","1","7","0","0">>, <<"0","0","3","0","0","0","1","3","8","3","5">>,
    <<"0","0","3","0","0","0","1","5","5","3","1">>, <<"0","0","3","0","0","0","1","7","8","7","5">>,
    <<"0","0","3","0","0","0","1","9","5","7","5">>, <<"0","0","3","0","0","0","2","0","8","0","6">>,
    <<"0","0","3","0","0","0","2","5","5","6","8">>, <<"0","0","3","0","0","0","4","0","4","1","3">>,
    <<"0","0","3","0","0","0","5","2","8","9","0">>, <<"0","0","3","0","0","1","6","9","5","3","5">>,
    <<"0","0","3","0","0","2","4","4","0","0","9">>, <<"0","0","3","0","0","6","3","6","5","6","4">>,
    <<"0","0","3","0","1","2","0","0","9","0","1">>, <<"0","0","3","0","5","5","3","5","2","0","6">>,
    <<"0","0","3","4","5","4","2","5","0","0","1">>, <<"0","0","3","5","2","8","6","1","0","0","1">>,
    <<"0","0","3","5","6","5","3","3","0","0","3">>, <<"0","0","3","6","2","6","8","4","0","2","3">>,
    <<"0","0","3","7","6","0","2","3","0","2","3">>, <<"0","0","3","8","8","3","3","8","0","9","3">>,
    <<"0","0","4","0","0","0","0","1","5","5","2">>, <<"0","0","4","0","0","0","0","1","6","1","4">>,
    <<"0","0","4","0","0","0","1","2","9","5","7">>, <<"0","0","4","0","0","1","8","9","8","1","1">>,
    <<"0","0","4","0","9","1","6","9","0","0","1">>, <<"0","0","4","2","5","7","5","9","0","0","1">>,
    <<"0","0","4","3","5","5","1","8","0","0","3">>, <<"0","0","4","7","5","9","1","6","0","5","6">>,
    <<"0","0","4","8","1","1","0","6","0","0","1">>, <<"0","0","4","8","1","5","9","5","0","0","3">>,
    <<"0","0","4","9","3","5","9","3","0","0","3">>, <<"0","0","5","0","0","3","3","5","5","9","6">>,
    <<"0","0","5","1","6","0","7","7","0","0","3">>, <<"0","0","5","2","0","2","0","7","6","9","9">>,
    <<"0","0","5","2","4","5","7","1","0","0","1">>, <<"0","0","5","3","9","3","4","2","0","0","5">>,
    <<"0","0","5","4","0","0","7","7","7","1","7">>, <<"0","0","5","4","4","6","5","7","0","0","1">>,
    <<"0","0","5","6","1","2","6","9","1","6","9">>, <<"0","0","5","7","2","0","3","0","0","0","1">>,
    <<"0","0","5","7","4","5","9","9","0","0","1">>, <<"0","0","5","9","9","4","0","8","0","0","3">>,
    <<"0","0","6","3","3","1","2","6","0","2","3">>, <<"0","0","6","4","4","2","3","6","0","0","1">>,
    <<"0","0","6","4","8","4","9","6","1","7","1">>, <<"0","0","6","5","1","3","2","2","0","0","1">>,
    <<"0","0","6","8","6","9","0","4","0","0","3">>, <<"0","0","7","0","1","0","6","7","5","2","1">>,
    <<"0","0","7","2","0","7","5","8","0","5","6">>, <<"0","0","7","3","1","0","5","4","0","5","4">>,
    <<"0","0","7","4","1","7","2","1","0","5","6">>, <<"0","0","7","5","7","3","9","8","0","0","1">>,
    <<"0","0","8","0","0","1","0","6","9","7","1">>, <<"0","0","8","4","8","5","8","3","0","5","6">>,
    <<"0","0","8","5","7","6","3","0","0","1","2">>, <<"0","0","9","4","6","6","2","6","6","7">>,
    <<"0","0","9","7","1","8","1","5","0","5","6">>, <<"0","1","0","0","0","0","0","5","5","8","0">>,
    <<"0","1","0","0","0","2","5","0","7","3","3">>, <<"0","1","0","0","0","2","6","8","9","9","8">>,
    <<"0","1","0","0","0","7","2","8","7","0","4">>, <<"0","1","0","0","0","8","5","5","8","9","0">>,
    <<"0","1","0","3","8","8","1","3","9","0","7">>, <<"0","1","0","9","4","5","6","0","1","1","1">>,
    <<"0","1","1","0","0","0","1","4","2","6","1">>, <<"0","1","1","0","0","6","2","0","9","6","2">>,
    <<"0","1","1","0","3","5","5","2","2","3","0">>, <<"0","1","1","3","3","0","2","5","6","6","0">>,
    <<"0","1","1","5","4","4","2","1","0","4","7">>, <<"0","1","2","0","0","0","0","4","1","6","6">>,
    <<"0","1","2","0","0","0","0","8","6","1","3">>, <<"0","1","2","0","0","0","1","1","2","5","2">>,
    <<"0","1","2","0","0","0","1","4","1","3","3">>, <<"0","1","2","0","0","0","2","7","8","6","3">>,
    <<"0","1","2","0","0","0","3","3","4","2","0">>, <<"0","1","2","0","0","0","3","8","2","9","8">>,
    <<"0","1","2","0","0","7","7","1","7","6","7">>, <<"0","1","3","0","0","0","0","1","1","4","2">>,
    <<"0","1","3","0","0","0","0","5","4","2","4">>, <<"0","1","3","0","0","0","2","0","3","3","1">>,
    <<"0","1","4","0","0","0","0","0","2","8","2">>, <<"0","1","4","0","0","0","7","4","8","7","5">>,
    <<"0","1","6","0","0","0","0","9","5","3","1">>, <<"0","1","6","0","0","0","1","9","9","8","3">>,
    <<"0","1","6","0","0","0","2","6","3","1","6">>, <<"0","1","6","0","0","0","2","7","8","9","4">>,
    <<"0","1","6","5","0","2","5","7","0","0","1">>, <<"0","1","7","0","0","0","5","2","4","4","5">>,
    <<"0","1","7","0","0","2","0","0","8","1","1">>, <<"0","1","8","0","0","0","2","2","4","5","7">>,
    <<"0","1","8","0","0","0","5","8","4","3","9">>, <<"0","1","8","0","0","5","2","7","1","0","4">>,
    <<"0","1","8","1","0","0","3","5","0","3","7">>, <<"0","2","0","3","8","5","6","9","0","0","1">>,
    <<"0","2","1","0","0","0","6","1","0","2","2">>, <<"0","2","3","0","0","0","0","3","0","6","1">>,
    <<"0","2","3","0","0","0","2","3","2","2","5">>, <<"0","2","3","0","0","0","3","1","7","5","8">>,
    <<"0","2","3","0","0","0","3","7","6","1","8">>, <<"0","2","3","0","0","0","4","7","2","2","0">>,
    <<"0","2","3","0","0","0","5","2","2","2","0">>, <<"0","2","3","0","0","0","5","4","1","9","3">>,
    <<"0","2","3","0","0","0","6","2","0","6","6">>, <<"0","2","3","0","0","0","8","5","1","5","8">>,
    <<"0","2","4","0","0","2","2","9","9","5","5">>, <<"0","2","5","0","0","0","4","5","6","7","6">>,
    <<"0","2","6","0","0","0","3","6","1","3","2">>, <<"0","2","6","0","0","0","9","4","9","5","4">>,
    <<"0","2","7","0","0","0","2","9","9","0","5">>, <<"0","2","7","5","5","9","7","2","0","0","1">>,
    <<"0","2","8","0","0","0","0","0","1","2","9">>, <<"0","2","8","0","0","0","2","1","7","6","1">>,
    <<"0","2","8","0","0","0","2","5","8","7","7">>, <<"0","2","8","0","0","0","2","9","5","8","8">>,
    <<"0","2","8","3","1","1","4","6","0","0","1">>, <<"0","3","0","0","0","4","1","1","2","9","5">>,
    <<"0","3","1","0","0","0","0","1","1","6","2">>, <<"0","3","1","0","0","0","1","8","7","3","0">>,
    <<"0","3","1","0","0","0","3","4","8","3","9">>, <<"0","3","1","0","0","0","8","3","2","9","7">>,
    <<"0","3","1","0","0","1","0","9","6","1","1">>, <<"0","3","1","0","0","1","5","6","5","2","5">>,
    <<"0","3","1","0","0","1","9","5","6","5","9">>, <<"0","3","1","0","0","2","3","1","3","9","0">>,
    <<"0","3","1","0","0","2","3","2","9","2","1">>, <<"0","3","1","0","0","2","7","7","0","7","8">>,
    <<"0","3","1","0","0","3","0","4","6","3","2">>, <<"0","3","1","0","0","3","3","2","2","9","6">>,
    <<"0","3","1","0","0","3","9","8","5","5","2">>, <<"0","3","1","0","0","4","4","2","4","5","7">>,
    <<"0","3","1","0","0","4","8","6","2","4","8">>, <<"0","3","1","0","0","4","8","8","0","3","3">>,
    <<"0","3","1","0","0","6","2","0","1","7","6">>, <<"0","3","1","0","0","6","5","4","2","2","4">>,
    <<"0","3","1","0","0","6","6","8","2","9","4">>, <<"0","3","1","0","0","6","7","3","0","5","0">>,
    <<"0","3","1","0","0","7","7","1","6","7","4">>, <<"0","3","1","0","0","7","8","9","6","3","6">>,
    <<"0","3","1","0","0","8","3","1","7","6","8">>, <<"0","3","1","0","0","9","6","3","7","7","6">>,
    <<"0","3","1","0","0","9","8","4","6","5","2">>, <<"0","3","1","0","1","0","1","4","8","7","7">>,
    <<"0","3","1","0","1","0","7","0","8","8","8">>, <<"0","3","1","0","1","1","0","5","8","0","2">>,
    <<"0","3","1","0","1","1","6","2","2","7","8">>, <<"0","3","1","0","1","4","0","9","1","9","6">>,
    <<"0","3","1","0","1","4","5","6","6","3","9">>, <<"0","3","1","0","1","4","7","7","2","5","4">>,
    <<"0","3","1","0","1","5","7","7","9","6","3">>, <<"0","3","1","0","1","7","1","3","6","8","4">>,
    <<"0","3","1","0","1","9","7","7","3","0","6">>, <<"0","3","1","0","2","3","4","2","0","7","6">>,
    <<"0","3","1","0","2","3","9","9","2","3","3">>, <<"0","3","1","0","2","6","7","8","7","0","0">>,
    <<"0","3","1","0","2","8","0","5","4","2","8">>, <<"0","3","1","0","2","8","2","8","5","2","2">>,
    <<"0","3","1","0","2","9","3","6","3","8","5">>, <<"0","3","1","0","3","2","0","2","7","1","9">>,
    <<"0","3","1","0","3","3","1","5","3","1","0">>, <<"0","3","1","0","3","3","1","7","6","1","7">>,
    <<"0","3","1","0","3","7","4","9","6","7","2">>, <<"0","3","1","0","4","3","5","4","8","9","2">>,
    <<"0","3","1","0","7","0","4","9","6","7","1">>, <<"0","3","1","0","8","3","0","9","3","0","8">>,
    <<"0","3","1","1","1","6","7","0","0","0","1">>, <<"0","3","1","2","1","9","8","2","4","7","9">>,
    <<"0","3","1","3","1","5","0","3","8","3","1">>, <<"0","3","1","7","0","4","8","3","4","8","0">>,
    <<"0","3","2","0","0","0","2","3","0","0","2">>, <<"0","3","2","0","0","0","6","6","9","4","0">>,
    <<"0","3","3","0","0","0","2","3","8","4","1">>, <<"0","3","4","0","0","0","5","8","7","3","0">>,
    <<"0","3","4","0","0","1","5","7","8","4","9">>, <<"0","3","4","0","1","7","0","9","7","0","1">>,
    <<"0","3","5","0","0","0","3","7","8","9","0">>, <<"0","3","6","0","0","0","4","6","1","1","6">>,
    <<"0","3","6","0","0","1","2","7","0","3","8">>, <<"0","3","6","0","0","1","8","0","6","3","7">>,
    <<"0","3","7","0","0","6","6","3","5","8","9">>, <<"0","3","8","0","0","0","3","2","5","2","2">>,
    <<"0","3","8","0","7","2","4","0","0","1","0">>, <<"0","3","8","5","2","3","8","0","0","0","1">>,
    <<"0","3","9","0","0","0","6","9","8","5","6">>, <<"0","3","9","0","0","1","9","2","2","8","4">>,
    <<"0","4","0","2","2","1","3","0","4","9","5">>, <<"0","4","2","0","0","0","1","2","9","0","0">>,
    <<"0","4","4","0","0","0","0","2","0","0","2">>, <<"0","4","4","0","0","6","2","7","8","6","8">>,
    <<"0","4","6","0","0","1","9","8","2","2","9">>, <<"0","4","7","0","0","0","0","4","0","2","4">>,
    <<"0","4","7","0","0","0","2","0","9","3","3">>, <<"0","4","7","0","0","0","2","7","0","6","4">>,
    <<"0","4","7","0","0","0","6","1","0","7","6">>, <<"0","4","7","0","0","0","7","0","4","6","0">>,
    <<"0","4","7","0","0","0","7","4","8","2","7">>, <<"0","4","7","0","0","2","1","1","6","3","5">>,
    <<"0","4","7","0","0","2","2","1","4","6","9">>, <<"0","4","7","0","0","7","2","8","1","8","4">>,
    <<"0","4","7","0","1","1","7","4","2","6","8">>, <<"0","4","8","0","0","0","1","9","5","6","1">>,
    <<"0","4","8","0","0","0","3","4","8","4","6">>, <<"0","4","8","0","0","0","4","6","9","1","0">>,
    <<"0","4","8","0","0","9","5","6","8","8","9">>, <<"0","4","8","0","1","2","4","5","8","9","2">>,
    <<"0","4","9","0","0","0","0","9","9","3","2">>, <<"0","4","9","0","0","0","1","1","6","9","0">>,
    <<"0","4","9","0","0","0","1","3","9","1","3">>, <<"0","4","9","0","0","0","1","4","5","9","2">>,
    <<"0","4","9","0","0","0","2","6","2","6","0">>, <<"0","4","9","0","0","0","2","8","4","4","3">>,
    <<"0","4","9","0","0","4","4","8","2","3","0">>, <<"0","4","9","0","2","5","4","9","0","0","1">>,
    <<"0","4","9","4","1","0","4","2","0","0","1">>, <<"0","5","1","0","0","0","8","5","6","5","6">>,
    <<"0","5","3","0","0","0","1","3","0","2","9">>, <<"0","5","3","0","0","0","1","3","2","0","4">>,
    <<"0","5","3","0","0","1","2","3","4","9","4">>, <<"0","5","4","0","0","0","1","6","0","3","1">>,
    <<"0","5","4","0","0","0","2","1","7","5","9">>, <<"0","5","4","0","0","0","2","2","0","4","2">>,
    <<"0","5","4","0","0","0","2","8","4","9","6">>, <<"0","5","4","0","0","0","3","3","1","6","6">>,
    <<"0","5","4","0","0","0","3","4","7","9","0">>, <<"0","5","4","0","0","0","3","7","4","9","5">>,
    <<"0","5","4","0","0","0","3","8","7","7","6">>, <<"0","5","4","0","0","0","4","0","5","2","3">>,
    <<"0","5","4","0","0","0","4","7","6","7","4">>, <<"0","5","4","0","0","0","4","8","2","4","8">>,
    <<"0","5","4","0","0","0","4","9","2","3","7">>, <<"0","5","4","0","0","0","4","9","8","3","4">>,
    <<"0","5","4","0","0","0","5","0","1","9","6">>, <<"0","5","4","0","0","0","5","0","3","0","4">>,
    <<"0","5","4","0","0","0","5","2","3","0","0">>, <<"0","5","4","0","0","0","5","3","6","2","7">>,
    <<"0","5","4","0","0","0","5","4","1","5","6">>, <<"0","5","4","0","0","0","5","5","4","8","5">>,
    <<"0","5","4","0","0","0","5","5","7","7","0">>, <<"0","5","4","0","0","0","5","7","3","0","0">>,
    <<"0","5","4","0","0","0","5","7","6","8","4">>, <<"0","5","4","0","0","0","5","8","9","6","4">>,
    <<"0","5","4","0","0","0","5","9","9","5","6">>, <<"0","5","4","0","0","0","6","0","7","4","3">>,
    <<"0","5","4","0","0","0","6","2","4","5","9">>, <<"0","5","4","0","0","0","6","5","3","7","6">>,
    <<"0","5","4","0","0","0","6","7","7","0","3">>, <<"0","5","4","0","0","0","7","2","2","7","3">>,
    <<"0","5","4","0","0","0","7","6","4","8","1">>, <<"0","5","4","0","0","2","1","6","9","4","8">>,
    <<"0","5","4","0","0","8","7","8","5","7","8">>, <<"0","5","5","0","0","0","0","3","0","7","9">>,
    <<"0","5","5","0","0","0","0","6","7","9","6">>, <<"0","5","5","0","0","0","0","8","8","0","6">>,
    <<"0","5","5","0","0","0","1","2","0","3","9">>, <<"0","5","5","0","0","0","1","4","3","7","5">>,
    <<"0","5","5","0","0","0","1","7","7","6","1">>, <<"0","5","5","0","0","0","2","1","1","1","8">>,
    <<"0","5","5","0","0","0","2","2","3","9","9">>, <<"0","5","5","0","0","0","2","3","4","0","7">>,
    <<"0","5","5","0","0","0","2","4","1","3","5">>, <<"0","5","5","0","0","0","2","4","1","9","0">>,
    <<"0","5","5","0","0","0","2","7","7","4","9">>, <<"0","5","5","0","0","0","2","8","3","5","0">>,
    <<"0","5","5","0","0","0","3","2","6","8","1">>, <<"0","5","5","0","0","1","7","3","4","5","1">>,
    <<"0","5","5","0","0","3","0","3","4","7","7">>, <<"0","5","6","0","0","0","3","7","7","6","1">>,
    <<"0","5","6","0","0","0","3","8","2","5","1">>, <<"0","5","6","0","0","0","3","8","9","6","4">>,
    <<"0","5","6","0","0","0","5","1","1","9","1">>, <<"0","5","6","0","0","0","6","3","1","1","5">>,
    <<"0","5","6","0","0","1","6","6","0","3","4">>, <<"0","5","6","0","0","2","6","7","7","3","7">>,
    <<"0","5","6","0","0","5","5","3","8","3","1">>, <<"0","5","7","0","0","0","0","4","6","9","3">>,
    <<"0","5","7","0","0","0","6","4","0","7","7">>, <<"0","5","7","0","0","0","7","1","2","0","2">>,
    <<"0","5","9","0","0","0","7","2","8","6","9">>, <<"0","5","9","0","0","1","0","5","9","6","9">>,
    <<"0","6","1","0","0","0","0","7","8","1","8">>, <<"0","6","1","0","0","0","0","9","1","3","1">>,
    <<"0","6","1","0","0","0","1","1","9","3","5">>, <<"0","6","1","0","0","0","1","3","6","6","2">>,
    <<"0","6","1","0","0","0","1","6","4","8","6">>, <<"0","6","1","0","0","0","1","7","0","5","8">>,
    <<"0","6","3","3","7","8","5","0","0","0","1">>, <<"0","6","4","0","0","0","0","7","9","1","6">>,
    <<"0","6","4","0","0","0","1","1","9","8","1">>, <<"0","6","4","0","0","0","1","4","3","7","2">>,
    <<"0","6","4","0","0","0","6","9","2","7","9">>, <<"0","6","4","8","6","1","8","6","0","0","1">>,
    <<"0","6","5","0","0","1","6","2","5","6","8">>, <<"0","6","8","0","0","0","0","8","4","4","8">>,
    <<"0","6","8","0","0","2","4","5","1","9","6">>, <<"0","6","8","4","3","7","3","9","5","5","1">>,
    <<"0","6","9","0","0","0","6","9","1","8","4">>, <<"0","7","0","0","0","0","0","7","8","7","2">>,
    <<"0","7","1","0","0","0","1","8","0","3","1">>, <<"0","7","1","0","0","0","6","3","2","6","2">>,
    <<"0","7","1","0","2","0","8","8","3","8">>, <<"0","7","4","0","0","0","0","1","2","5","4">>,
    <<"0","7","4","0","1","8","6","0","1","1","2">>, <<"0","7","6","0","0","0","0","0","6","9","1">>,
    <<"0","7","7","0","0","0","0","9","3","4","6">>, <<"0","7","8","0","0","0","0","0","9","6","8">>,
    <<"0","7","8","0","0","0","0","2","3","6","1">>, <<"0","8","0","0","0","2","1","3","1","7","2">>,
    <<"0","8","0","1","6","8","0","9","0","0","1">>, <<"0","8","1","0","0","0","0","2","3","9","8">>,
    <<"0","8","4","0","0","0","6","8","3","8","0">>, <<"0","8","4","9","8","6","1","9","0","0","1">>,
    <<"0","8","8","0","0","0","0","2","8","2","3">>, <<"0","8","8","0","0","0","0","3","9","8","6">>,
    <<"0","8","8","0","0","0","0","5","0","6","8">>, <<"0","8","9","0","0","0","0","1","3","1","0">>,
    <<"0","8","9","0","0","0","0","4","3","4","4">>, <<"0","8","9","0","0","0","0","4","8","4","9">>,
    <<"0","8","9","0","0","0","0","5","0","6","4">>, <<"0","8","9","5","2","6","9","8","0","0","1">>,
    <<"0","9","0","0","0","1","1","7","9","6","3">>, <<"0","9","0","0","0","1","6","9","1","3","3">>,
    <<"0","9","0","1","0","0","1","1","2","3","5">>, <<"0","9","0","2","2","0","6","6","0","1","1">>,
    <<"0","9","2","0","0","5","3","3","0","4","8">>, <<"0","9","3","0","0","0","0","6","2","3","9">>,
    <<"0","9","3","0","0","0","3","5","3","5","7">>, <<"0","9","4","0","0","0","2","2","1","7","8">>,
    <<"0","9","4","2","1","5","8","1","7","6","8">>, <<"0","9","5","0","0","0","0","1","1","7","7">>,
    <<"0","9","5","0","0","0","0","3","2","1","1">>, <<"0","9","5","0","0","0","0","8","2","2","2">>,
    <<"0","9","7","0","0","0","0","3","0","3","0">>, <<"0","9","7","0","0","1","7","9","1","1","0">>,
    <<"0","9","9","0","0","0","1","7","8","6","4">>, <<"1","0","0","6","1","8","0","5","8","1","1">>,
    <<"1","0","1","0","0","1","7","8","1","9","9">>, <<"1","0","2","0","1","1","1","6","3","5","7">>,
    <<"1","0","4","6","2","1","5","7","0","0","1">>, <<"1","0","4","9","1","2","9","7","0","0","1">>,
    <<"1","0","6","2","1","5","8","1","7","9","2">>, <<"1","0","9","8","3","4","3","9","1","1","0">>,
    <<"1","1","7","0","0","0","0","0","6","5","8">>, <<"1","2","0","1","9","8","3","1","0","0","1">>,
    <<"1","2","3","0","0","0","7","4","6","2","8">>, <<"2","1","0","0","0","0","0","0","0","0","0">>,
    <<"2","2","3","2","1","5","8","1","8","3","4">>, <<"2","2","7","2","1","5","8","1","8","1","8">>,
    <<"4","0","2","0","0","4","0","1","3","2","4">>, <<"4","0","2","0","0","4","5","2","7","3","5">>,
    <<"4","0","2","0","0","6","3","9","9","5","3">>, <<"4","0","2","0","0","7","0","0","6","7","5">>,
    <<"5","8","0","0","5","1","7","4","0","5","8">>, <<"9","0","0","0","1","2","0","0","9","0","1">>
    >>

\* A whitelist to which a number with a valid checksum was added.
whitelist_with_valid ==
    {whitelist_words[i] : i \in 1..Len(whitelist_words)}
        \cup {<<"0","0","1","1","3","9","1","8","2","0","5">>}

\* whitelist = set('''...'''.split())
whitelist == {whitelist_words[i] : i \in 1..Len(whitelist_words)}

\* ------------------------------------------------------------------------
\* The public functions of cedula.py
\* ------------------------------------------------------------------------

\* compact without the final strip().
compact_no_strip(s) == clean(s, {" ", "-"})

\* compact(number): strip the separators ' ' and '-' and the surrounding
\* whitespace.
compact(s) == strip(clean(s, {" ", "-"}))

\* validate with the length check ahead of the whitelist lookup.
validate_length_first(wl, s) ==
    LET n == clean(s, {" ", "-"})
        c == strip(n)
    IN  IF ~isdigit(c) THEN Raise("InvalidFormat")
        ELSE IF Len(c) # 11 THEN Raise("InvalidLength")
        ELSE IF c \in wl THEN Ok(c)
        ELSE luhn_validate(c)

\* validate(number) against a given whitelist: format, whitelist, length
\* and checksum, in that order.
validate_with(wl, s) ==
    LET n == compact(s)
    IN  IF ~isdigit(n) THEN Raise("InvalidFormat")
        ELSE IF n \in wl THEN Ok(n)
        ELSE IF Len(n) # 11 THEN Raise("InvalidLength")
        ELSE luhn_validate(n)

\* validate checking the compact number but returning its argument.
validate_returns_input(s) ==
    LET n == strip(clean(s, {" ", "-"}))
    IN  IF ~isdigit(n) THEN Raise("InvalidFormat")
        ELSE IF n \in whitelist THEN Ok(s)
        ELSE IF Len(n) # 11 THEN Raise("InvalidLength")
        ELSE IF luhn_validate(n).kind = "ok" THEN Ok(s)
        ELSE luhn_validate(n)

validate(s) == validate_with(whitelist, s)

\* is_valid catching InvalidFormat alone instead of every ValidationError.
is_valid_format_only(s) ==
    LET r == validate(s)
    IN  IF r.kind = "ok" THEN Ok(bool(r.value))
        ELSE IF r.kind = "InvalidFormat" THEN Ok(FALSE)
        ELSE r

\* is_valid(number): bool(validate(number)), False on a ValidationError;
\* any other exception propagates.
is_valid(s) ==
    LET r == validate(s)
    IN  IF r.kind = "ok" THEN Ok(bool(r.value))
        ELSE IF r.kind \in ValidationError THEN Ok(FALSE)
        ELSE r

\* format with the middle group running to the end: number[3:].
format_keep_tail(s) ==
    LET n == compact(s)
    IN  IF Len(n) = 0 THEN Raise("IndexError")
        ELSE Ok(join(<<"-">>, <<PySlice(n, 0, 3), PySlice(n, 3, Len(n)), <<n[Len(n)]>> >>))

\* format with the last group taken as the slice number[-1:], which does
\* not raise on the empty string.
format_slice_last(s) ==
    LET n == compact(s)
    IN  Ok(join(<<"-">>, <<PySlice(n, 0, 3), PySlice(n, 3, -1), PySlice(n, -1, Len(n))>>))

\* format with the middle group starting one character late: number[4:-1].
format_off_by_one(s) ==
    LET n == compact(s)
    IN  IF Len(n) = 0 THEN Raise("IndexError")
        ELSE Ok(join(<<"-">>, <<PySlice(n, 0, 3), PySlice(n, 4, -1), <<n[Len(n)]>> >>))

\* format(number): '-'.join((number[:3], number[3:-1], number[-1])) of the
\* compact number; number[-1] raises IndexError on the empty string.
format(s) ==
    LET n == compact(s)
    IN  IF Len(n) = 0 THEN Raise("IndexError")
        ELSE Ok(join(<<"-">>, <<PySlice(n, 0, 3), PySlice(n, 3, -1), <<n[Len(n)]>> >>))

\* ------------------------------------------------------------------------
\* Inputs
\* ------------------------------------------------------------------------

\* Longest input that is enumerated character by character.
MaxLen == 3

\* Characters of the enumerated inputs: digits, both separators, a letter,
\* a whitespace character that is no separator, a non-ASCII digit.
InputChars == {"0", "1", " ", "-", "A", "\t", "U+00B2"}

RECURSIVE StringsUpTo(_)
StringsUpTo(n) ==
    IF n = 0 THEN {<<>>}
    ELSE LET shorter == StringsUpTo(n - 1)
         IN  shorter \cup {Append(s, c) : s \in {t \in shorter : Len(t) = n - 1}, c \in InputChars}

\* Ten-digit stems completed with every check digit: the numbers of the
\* module's doctests, a whitelisted 11-digit number and a whitelisted
\* 10-digit number.
Stems == {
    <<"0","0","1","1","3","9","1","8","2","0">>,
    <<"2","2","4","0","0","0","2","2","1","1">>,
    <<"2","1","0","0","0","0","0","0","0","0">>,
    <<"0","0","9","4","6","6","2","6","6","7">>,
    <<"4","0","2","0","0","4","0","1","3","2">>
    }

Cedulas == whitelist \cup Stems \cup {Append(s, d) : s \in Stems, d \in AsciiDigits}

\* The ways a caller writes (or miswrites) the number c.
Written(c) ==
    LET n == Len(c)
    IN  { c,
          SubSeq(c, 1, 3) \o <<"-">> \o SubSeq(c, 4, n - 1) \o <<"-">> \o SubSeq(c, n, n),
          <<" ">> \o SubSeq(c, 1, 3) \o <<" ", "-", " ">> \o SubSeq(c, 4, n) \o <<"\t">>,
          SubSeq(c, 1, 5) \o <<"\t">> \o SubSeq(c, 6, n),
          SubSeq(c, 1, n - 1) \o <<"A">>,
          SubSeq(c, 1, n - 1) \o <<"U+00B2">>,
          SubSeq(c, 1, 5) \o <<"U+00B2">> \o SubSeq(c, 6, n),
          SubSeq(c, 1, 5) \o <<"A">> \o SubSeq(c, 6, n),
          Append(c, "0"),
          Tail(c) }

Inputs == StringsUpTo(MaxLen) \cup UNION {Written(c) : c \in Cedulas}

\* ------------------------------------------------------------------------
\* The state machine: one call of a public function on the input
\* ------------------------------------------------------------------------

NoResult == [kind |-> "none", value |-> <<>>]

Init ==
    /\ number \in Inputs
    /\ op = "none"
    /\ result = NoResult

Compact ==
    /\ op = "none"
    /\ op' = "compact"
    /\ result' = Ok(compact(number))
    /\ UNCHANGED number

Validate ==
    /\ op = "none"
    /\ op' = "validate"
    /\ result' = validate(number)
    /\ UNCHANGED number

IsValid ==
    /\ op = "none"
    /\ op' = "is_valid"
    /\ result' = is_valid(number)
    /\ UNCHANGED number

Format ==
    /\ op = "none"
    /\ op' = "format"
    /\ result' = format(number)
    /\ UNCHANGED number

Next == Compact \/ Validate \/ IsValid \/ Format

Spec == Init /\ [][Next]_vars

\* ------------------------------------------------------------------------
\* Properties
\* ------------------------------------------------------------------------

\* Reference definitions the properties are stated with.

\* Digits 0-9 only (at least none other; the empty string qualifies).
OnlyAsciiDigits(s) == \A i \in 1..Len(s) : s[i] \in AsciiDigits

DigitValue(c) ==
    CASE c = "0" -> 0 [] c = "1" -> 1 [] c = "2" -> 2 [] c = "3" -> 3 [] c = "4" -> 4
      [] c = "5" -> 5 [] c = "6" -> 6 [] c = "7" -> 7 [] c = "8" -> 8 [] c = "9" -> 9

\* The Luhn mod-10 test of an 11-digit string by position from the left:
\* the digits at even positions are doubled, 9 is subtracted from a double
\* above 9, and the total is a multiple of 10.
LuhnTerm(s, i) ==
    LET d == DigitValue(s[i])
    IN  IF i % 2 = 1 THEN d ELSE IF 2 * d > 9 THEN 2 * d - 9 ELSE 2 * d

Luhn11(s) ==
    (LuhnTerm(s, 1) + LuhnTerm(s, 2) + LuhnTerm(s, 3) + LuhnTerm(s, 4)
     + LuhnTerm(s, 5) + LuhnTerm(s, 6) + LuhnTerm(s, 7) + LuhnTerm(s, 8)
     + LuhnTerm(s, 9) + LuhnTerm(s, 10) + LuhnTerm(s, 11)) % 10 = 0

Is11Digits(s) == Len(s) = 11 /\ OnlyAsciiDigits(s)

\* s without its spaces and hyphens.
NoSeparators(s) == SelectSeq(s, LAMBDA c : c \notin {" ", "-"})

\* The part of s between its first and its last non-whitespace character.
Trimmed(s) ==
    LET keep == {i \in 1..Len(s) : s[i] \notin Whitespace}
    IN  IF keep = {} THEN <<>>
        ELSE SubSeq(s, CHOOSE i \in keep : \A j \in keep : i <= j,
                       CHOOSE i \in keep : \A j \in keep : j <= i)

\* C1: after validate, an input whose compact form is 11 digits 0-9 and is
\* not whitelisted yields the compact form when it passes the Luhn test and
\* InvalidChecksum when it does not; no other input yields InvalidChecksum.
C1_Checksum ==
    op = "validate" =>
        LET c == compact(number)
        IN  /\ (Is11Digits(c) /\ c \notin whitelist) =>
                   result = (IF Luhn11(c) THEN Ok(c) ELSE Raise("InvalidChecksum"))
            /\ result.kind = "InvalidChecksum" =>
                   (Is11Digits(c) /\ c \notin whitelist /\ ~Luhn11(c))

\* The doctest number '00113918205', written with separators, validates to
\* the compact number.
C1_Witness ==
    /\ op = "validate"
    /\ number # compact(number)
    /\ result = Ok(<<"0","0","1","1","3","9","1","8","2","0","5">>)

\* C2: after validate, an input whose compact form is a member of the
\* whitelist yields that compact form, whatever its length or checksum and
\* whatever spaces and hyphens the input carries.
C2_WhitelistShortCircuit ==
    (op = "validate" /\ compact(number) \in whitelist) => result = Ok(compact(number))

\* The 10-digit whitelist entry '0094662667', written with separators, is
\* accepted.
C2_Witness ==
    /\ op = "validate"
    /\ number # compact(number)
    /\ compact(number) = <<"0","0","9","4","6","6","2","6","6","7">>
    /\ result = Ok(<<"0","0","9","4","6","6","2","6","6","7">>)

\* C3: validate fails with InvalidFormat if and only if the compact form has
\* a character that is not a digit 0-9; a compact form without one (the
\* empty string included) is never rejected with InvalidFormat.
C3_InvalidFormatIff ==
    op = "validate" =>
        (result.kind = "InvalidFormat" <=> ~OnlyAsciiDigits(compact(number)))

\* C4: the error kind is that of the first failing check in the order
\* format, whitelist, length, checksum: a compact form with a non-digit
\* fails with InvalidFormat whatever its length; a non-empty, not
\* whitelisted string of digits of a length other than 11 fails with
\* InvalidLength.
C4_ErrorOrder ==
    op = "validate" =>
        LET c == compact(number)
        IN  /\ ~OnlyAsciiDigits(c) => result.kind = "InvalidFormat"
            /\ (c # <<>> /\ OnlyAsciiDigits(c) /\ c \notin whitelist /\ Len(c) # 11)
                   => result.kind = "InvalidLength"

\* C5: is_valid returns True exactly when validate succeeds and False when
\* it fails, never an exception; no successful validate returns the empty
\* string.
C5_IsValid ==
    /\ op = "is_valid" =>
           (result.kind = "ok" /\ result.value = (validate(number).kind = "ok"))
    /\ (op = "validate" /\ result.kind = "ok") => result.value # <<>>

\* is_valid returned False for a number validate rejects with
\* InvalidChecksum.
C5_Witness ==
    /\ op = "is_valid"
    /\ result = Ok(FALSE)
    /\ validate(number).kind = "InvalidChecksum"

\* C6: compact returns the input without its spaces and hyphens, the other
\* characters in their order, trimmed of surrounding whitespace; the result
\* has no space, no hyphen, no whitespace at either end, and compact leaves
\* it unchanged.
C6_Compact ==
    op = "compact" =>
        /\ result.kind = "ok"
        /\ result.value = Trimmed(NoSeparators(number))
        /\ \A i \in 1..Len(result.value) : result.value[i] \notin {" ", "-"}
        /\ result.value # <<>> =>
               /\ result.value[1] \notin Whitespace
               /\ result.value[Len(result.value)] \notin Whitespace
        /\ compact(result.value) = result.value

\* An input with a hyphen inside and a tab at its end was compacted to 11
\* characters.
C6_Witness ==
    /\ op = "compact"
    /\ \E i \in 1..Len(number) : number[i] = "-"
    /\ number # <<>> /\ number[Len(number)] = "\t"
    /\ Len(result.value) = 11

\* C7: format of an input whose compact form is 11 digits d1..d11 returns
\* d1d2d3-d4d5d6d7d8d9d10-d11, whatever the separators of the input, its
\* checksum or its whitelisting.
C7_Format11 ==
    (op = "format" /\ Is11Digits(compact(number))) =>
        LET c == compact(number)
        IN  result = Ok(<<c[1], c[2], c[3], "-", c[4], c[5], c[6], c[7], c[8], c[9],
                          c[10], "-", c[11]>>)

\* The doctest: format('22400022111') = '224-0002211-1'.
C7_Witness ==
    /\ op = "format"
    /\ number = <<"2","2","4","0","0","0","2","2","1","1","1">>
    /\ result = Ok(<<"2","2","4","-","0","0","0","2","2","1","1","-","1">>)

\* The three groups of format: the characters at 0-based positions [0,3),
\* at [3,len-1), and the final character (none in the empty string).
Grouped(c) ==
    LET n  == Len(c)
        g1 == SubSeq(c, 1, IF n < 3 THEN n ELSE 3)
        g2 == IF n >= 5 THEN SubSeq(c, 4, n - 1) ELSE <<>>
        g3 == IF n = 0 THEN <<>> ELSE <<c[n]>>
    IN  g1 \o <<"-">> \o g2 \o <<"-">> \o g3

\* C8 as stated: format has no error outcome; for every input it returns
\* the three groups of the compact form joined by two hyphens.
C8_FormatTotal ==
    op = "format" => result = Ok(Grouped(compact(number)))

\* C8, amended: format returns the three groups of the compact form joined
\* by exactly two hyphens whenever the compact form is not empty, and
\* raises IndexError when it is empty.
C8_FormatNonEmpty ==
    op = "format" =>
        LET c == compact(number)
        IN  IF c = <<>>
            THEN result.kind = "IndexError"
            ELSE /\ result = Ok(Grouped(c))
                 /\ Cardinality({i \in 1..Len(result.value) : result.value[i] = "-"}) = 2

\* format returned a string for a compact form shorter than 4 characters.
C8_Witness ==
    /\ op = "format"
    /\ Len(compact(number)) \in 1..3
    /\ result.kind = "ok"
    /\ Len(result.value) = Len(compact(number)) + 3

\* C9: every whitelist entry is a non-empty string of digits 0-9 in compact
\* form, none is an 11-digit string passing the Luhn test, and validate
\* accepts each only through the whitelist: without the entry on the list
\* it is rejected with InvalidLength or InvalidChecksum.
C9_Whitelist ==
    (op = "validate" /\ number \in whitelist) =>
        /\ number # <<>>
        /\ OnlyAsciiDigits(number)
        /\ compact(number) = number
        /\ ~(Is11Digits(number) /\ Luhn11(number))
        /\ result = Ok(number)
        /\ validate_with(whitelist \ {number}, number).kind
               \in {"InvalidLength", "InvalidChecksum"}

\* A 10-digit entry was accepted and would be rejected with InvalidLength
\* were it not listed.
C9_Witness ==
    /\ op = "validate"
    /\ number \in whitelist
    /\ Len(number) = 10
    /\ result = Ok(number)
    /\ validate_with(whitelist \ {number}, number).kind = "InvalidLength"

\* C10: for a result v of a successful validate, compact(format(v)) = v,
\* validate(format(v)) = v and validate(v) = v.
C10_RoundTrip ==
    (op = "validate" /\ result.kind = "ok") =>
        LET v == result.value
            f == format(v)
        IN  /\ f.kind = "ok"
            /\ compact(f.value) = v
            /\ validate(f.value) = Ok(v)
            /\ validate(v) = Ok(v)

\* A 10-digit whitelist entry written with separators was validated, and
\* its formatted form differs from it.
C10_Witness ==
    /\ op = "validate"
    /\ result.kind = "ok"
    /\ Len(result.value) = 10
    /\ number # result.value
    /\ format(result.value).kind = "ok"
    /\ format(result.value).value # result.value

====
